---- MODULE Spec2Model ----
(***************************************************************************)
(* Model of monitor-systemtimechanges (src/main.py): command-line parsing, *)
(* validation, the sampling loop of main() and its two exception handlers. *)
(* Time is counted in whole seconds.  The system clock is an environment   *)
(* variable: it advances by the time spent in time.sleep and can be        *)
(* stepped by ClockJump.  KeyboardInterrupt and unexpected exceptions are  *)
(* delivered at any statement of the try block (lines 67-81).              *)
(***************************************************************************)
EXTENDS Integers, Sequences, FiniteSets

\* ---- bounds of the model ----
MaxArg == 2        \* largest value given for --interval / --threshold
MaxIter == 3       \* loop iterations explored
MaxJumps == 2      \* clock step changes per run
MaxJump == 2       \* largest magnitude of one clock step change

\* ---- program constants ----
DefaultInterval == 1
DefaultThreshold == 5
ArgparseErrorStatus == 2

VARIABLES
    pc,               \* position in the program
    is_root,          \* os.geteuid() == 0
    argv,             \* raw command-line values of -i and -t
    args,             \* args.interval, args.threshold
    logOpened,        \* the FileHandler of line 61 exists
    clock,            \* the system clock (seconds)
    last_time,
    current_time,
    time_difference,
    log,              \* records handed to the root logger
    out,              \* lines printed on standard output
    exit_code,        \* process exit status, NoExit while running
    iter,             \* history: iterations started (samples at line 73)
    samples,          \* history: every value returned by time.time()
    deltas,           \* history: time_difference of every iteration
    adj,              \* history: net clock step since the last sample
    adjs,             \* history: net clock step before every loop sample
    njumps,           \* history: number of clock steps
    writes,           \* history: assignments to last_time inside the loop
    sleeps,           \* history: completed time.sleep calls
    stopped           \* history: what ended the run, and at which statement

vars == <<pc, is_root, argv, args, logOpened, clock, last_time, current_time,
          time_difference, log, out, exit_code, iter, samples, deltas, adj,
          adjs, njumps, writes, sleeps, stopped>>

NoExit == 0 - 1

Abs(x) == IF x < 0 THEN 0 - x ELSE x

\* A raw command-line value: absent, a non-numeric string, or an integer.
RawArgs == {[kind |-> "absent", val |-> 0], [kind |-> "text", val |-> 0]}
           \cup {[kind |-> "int", val |-> v] : v \in (0 - 1)..MaxArg}

\* Statements of the try block of main(), lines 67-81.
LoopPcs == {"sample", "check", "log_alert", "print_alert", "update", "sleep"}
TryPcs == {"start_time", "log_started", "print_started"} \cup LoopPcs

LogRec(level, msg, d, e, n) ==
    [level |-> level, msg |-> msg, delta |-> d, expected |-> e, iter |-> n]
OutRec(msg, d, e, n) ==
    [msg |-> msg, delta |-> d, expected |-> e, iter |-> n]

\* argparse type=int with a default (lines 18-19)
argparse_int(raw, default) ==
    IF raw.kind = "absent" THEN [ok |-> TRUE, val |-> default]
    ELSE IF raw.kind = "text" THEN [ok |-> FALSE, val |-> 0]
    ELSE [ok |-> TRUE, val |-> raw.val]

\* check_positive_int (lines 23-42) applied to an already parsed integer
check_positive_int_zero(value) ==
    IF value < 0 THEN [ok |-> FALSE, val |-> value]
    ELSE [ok |-> TRUE, val |-> value]

check_positive_int(value) ==
    IF value <= 0 THEN [ok |-> FALSE, val |-> value]
    ELSE [ok |-> TRUE, val |-> value]

\* the condition of line 76
Deviates_ge(d, i, t) == Abs(d - i) >= t

Deviates(d, i, t) == Abs(d - i) > t

Init ==
    /\ pc = "root_check"
    /\ is_root \in BOOLEAN
    /\ argv \in [interval : RawArgs, threshold : RawArgs]
    /\ args = [interval |-> 0, threshold |-> 0]
    /\ logOpened = FALSE
    /\ clock = 0
    /\ last_time = 0
    /\ current_time = 0
    /\ time_difference = 0
    /\ log = <<>>
    /\ out = <<>>
    /\ exit_code = NoExit
    /\ iter = 0
    /\ samples = <<>>
    /\ deltas = <<>>
    /\ adj = 0
    /\ adjs = <<>>
    /\ njumps = 0
    /\ writes = 0
    /\ sleeps = 0
    /\ stopped = [by |-> "no", at |-> "none"]

\* lines 94-97
RootCheck ==
    /\ pc = "root_check"
    /\ pc' = "parse"
    /\ IF is_root
       THEN /\ out' = Append(out, OutRec("root", 0, 0, 0))
            /\ log' = Append(log, LogRec("WARNING", "root", 0, 0, 0))
       ELSE UNCHANGED <<out, log>>
    /\ UNCHANGED <<is_root, argv, args, logOpened, clock, last_time,
                   current_time, time_difference, exit_code, iter, samples,
                   deltas, adj, adjs, njumps, writes, sleeps, stopped>>

\* lines 48-49: parser.parse_args(); a non-numeric value makes argparse
\* report the error itself and exit with status 2
ParseArgs ==
    /\ pc = "parse"
    /\ LET pi == argparse_int(argv.interval, DefaultInterval)
           pt == argparse_int(argv.threshold, DefaultThreshold)
       IN IF pi.ok /\ pt.ok
          THEN /\ args' = [interval |-> pi.val, threshold |-> pt.val]
               /\ pc' = "validate"
               /\ UNCHANGED exit_code
          ELSE /\ pc' = "exited"
               /\ exit_code' = ArgparseErrorStatus
               /\ UNCHANGED args
    /\ UNCHANGED <<is_root, argv, logOpened, clock, last_time, current_time,
                   time_difference, log, out, iter, samples, deltas, adj,
                   adjs, njumps, writes, sleeps, stopped>>

\* lines 52-58
Validate ==
    /\ pc = "validate"
    /\ LET ci == check_positive_int(args.interval)
           ct == check_positive_int(args.threshold)
       IN IF ci.ok /\ ct.ok
          THEN /\ args' = [interval |-> ci.val, threshold |-> ct.val]
               /\ pc' = "open_log"
               /\ UNCHANGED <<log, out, exit_code>>
          ELSE /\ args' = IF ci.ok THEN [args EXCEPT !.interval = ci.val]
                          ELSE args
               /\ log' = Append(log, LogRec("ERROR", "invalid", 0, 0, 0))
               /\ out' = Append(out, OutRec("invalid", 0, 0, 0))
               /\ pc' = "exited"
               /\ exit_code' = 1
    /\ UNCHANGED <<is_root, argv, logOpened, clock, last_time, current_time,
                   time_difference, iter, samples, deltas, adj, adjs, njumps,
                   writes, sleeps, stopped>>

\* lines 61-65
OpenLog ==
    /\ pc = "open_log"
    /\ logOpened' = TRUE
    /\ pc' = "start_time"
    /\ UNCHANGED <<is_root, argv, args, clock, last_time, current_time,
                   time_difference, log, out, exit_code, iter, samples,
                   deltas, adj, adjs, njumps, writes, sleeps, stopped>>

\* line 61 raising (unwritable path): outside the try block, so the
\* exception is uncaught and the interpreter exits with status 1
OpenLogFail ==
    /\ pc = "open_log"
    /\ pc' = "exited"
    /\ exit_code' = 1
    /\ stopped' = [by |-> "error", at |-> pc]
    /\ UNCHANGED <<is_root, argv, args, logOpened, clock, last_time,
                   current_time, time_difference, log, out, iter, samples,
                   deltas, adj, adjs, njumps, writes, sleeps>>

\* line 68
StartTime ==
    /\ pc = "start_time"
    /\ last_time' = clock
    /\ samples' = Append(samples, clock)
    /\ adj' = 0
    /\ pc' = "log_started"
    /\ UNCHANGED <<is_root, argv, args, logOpened, clock, current_time,
                   time_difference, log, out, exit_code, iter, deltas, adjs,
                   njumps, writes, sleeps, stopped>>

\* line 69
LogStarted ==
    /\ pc = "log_started"
    /\ log' = Append(log, LogRec("INFO", "started", 0, 0, 0))
    /\ pc' = "print_started"
    /\ UNCHANGED <<is_root, argv, args, logOpened, clock, last_time,
                   current_time, time_difference, out, exit_code, iter,
                   samples, deltas, adj, adjs, njumps, writes, sleeps,
                   stopped>>

\* line 70
PrintStarted ==
    /\ pc = "print_started"
    /\ out' = Append(out, OutRec("started", 0, 0, 0))
    /\ pc' = "sample"
    /\ UNCHANGED <<is_root, argv, args, logOpened, clock, last_time,
                   current_time, time_difference, log, exit_code, iter,
                   samples, deltas, adj, adjs, njumps, writes, sleeps,
                   stopped>>

\* lines 72-73
Sample ==
    /\ pc = "sample"
    /\ iter < MaxIter
    /\ current_time' = clock
    /\ iter' = iter + 1
    /\ samples' = Append(samples, clock)
    /\ adjs' = Append(adjs, adj)
    /\ adj' = 0
    /\ pc' = "check"
    /\ UNCHANGED <<is_root, argv, args, logOpened, clock, last_time,
                   time_difference, log, out, exit_code, deltas, njumps,
                   writes, sleeps, stopped>>

\* lines 74 and 76
Check ==
    /\ pc = "check"
    /\ time_difference' = current_time - last_time
    /\ deltas' = Append(deltas, current_time - last_time)
    /\ pc' = IF Deviates(current_time - last_time, args.interval,
                         args.threshold)
             THEN "log_alert" ELSE "update"
    /\ UNCHANGED <<is_root, argv, args, logOpened, clock, last_time,
                   current_time, log, out, exit_code, iter, samples, adj,
                   adjs, njumps, writes, sleeps, stopped>>

\* line 77
LogAlert ==
    /\ pc = "log_alert"
    /\ log' = Append(log, LogRec("WARNING", "alert", time_difference,
                                 args.interval, iter))
    /\ pc' = "print_alert"
    /\ UNCHANGED <<is_root, argv, args, logOpened, clock, last_time,
                   current_time, time_difference, out, exit_code, iter,
                   samples, deltas, adj, adjs, njumps, writes, sleeps,
                   stopped>>

\* line 78
PrintAlert ==
    /\ pc = "print_alert"
    /\ out' = Append(out, OutRec("alert", time_difference, args.interval,
                                 iter))
    /\ pc' = "update"
    /\ UNCHANGED <<is_root, argv, args, logOpened, clock, last_time,
                   current_time, time_difference, log, exit_code, iter,
                   samples, deltas, adj, adjs, njumps, writes, sleeps,
                   stopped>>

UpdateFrame ==
    /\ pc = "update"
    /\ pc' = "sleep"
    /\ UNCHANGED <<is_root, argv, args, logOpened, clock, current_time,
                   time_difference, log, out, exit_code, iter, samples,
                   deltas, adj, adjs, njumps, sleeps, stopped>>

\* last_time is never refreshed
Update_stale ==
    /\ UpdateFrame
    /\ UNCHANGED <<last_time, writes>>

\* last_time is refreshed only when no alert was raised
Update_else ==
    /\ UpdateFrame
    /\ IF Abs(time_difference - args.interval) > args.threshold
       THEN UNCHANGED <<last_time, writes>>
       ELSE /\ last_time' = current_time
            /\ writes' = writes + 1

\* last_time advances by the nominal interval
Update_nominal ==
    /\ UpdateFrame
    /\ last_time' = IF iter = 1 THEN current_time
                    ELSE last_time + args.interval
    /\ writes' = writes + 1

\* line 80
Update ==
    /\ UpdateFrame
    /\ last_time' = current_time
    /\ writes' = writes + 1

\* line 81: the wait lasts args.interval seconds of clock time
Sleep ==
    /\ pc = "sleep"
    /\ clock' = clock + args.interval
    /\ sleeps' = sleeps + 1
    /\ pc' = "sample"
    /\ UNCHANGED <<is_root, argv, args, logOpened, last_time, current_time,
                   time_difference, log, out, exit_code, iter, samples,
                   deltas, adj, adjs, njumps, writes, stopped>>

\* The clock is stepped by J seconds while the process waits (line 81) or
\* between the two first readings of the clock (lines 68 and 73).  The clock
\* is only read at those lines, so a step at any other statement is seen by
\* the program exactly as a step during the following wait.
ClockJump ==
    /\ pc \in {"log_started", "sleep"}
    /\ njumps < MaxJumps
    /\ \E J \in ((0 - MaxJump)..MaxJump) \ {0} :
          /\ clock' = clock + J
          /\ adj' = adj + J
    /\ njumps' = njumps + 1
    /\ UNCHANGED <<pc, is_root, argv, args, logOpened, last_time,
                   current_time, time_difference, log, out, exit_code, iter,
                   samples, deltas, adjs, writes, sleeps, stopped>>

\* KeyboardInterrupt raised at a statement of the try block (line 83)
Interrupt ==
    /\ pc \in TryPcs
    /\ pc' = "kbd_log"
    /\ stopped' = [by |-> "interrupt", at |-> pc]
    /\ UNCHANGED <<is_root, argv, args, logOpened, clock, last_time,
                   current_time, time_difference, log, out, exit_code, iter,
                   samples, deltas, adj, adjs, njumps, writes, sleeps>>

\* line 84
KbdLog ==
    /\ pc = "kbd_log"
    /\ log' = Append(log, LogRec("INFO", "stopped", 0, 0, 0))
    /\ pc' = "kbd_print"
    /\ UNCHANGED <<is_root, argv, args, logOpened, clock, last_time,
                   current_time, time_difference, out, exit_code, iter,
                   samples, deltas, adj, adjs, njumps, writes, sleeps,
                   stopped>>

\* the interrupt is swallowed and the loop goes on
KbdPrint_resume ==
    /\ pc = "kbd_print"
    /\ out' = Append(out, OutRec("stopped", 0, 0, 0))
    /\ pc' = "sample"
    /\ UNCHANGED <<is_root, argv, args, logOpened, clock, last_time,
                   current_time, time_difference, log, exit_code, iter,
                   samples, deltas, adj, adjs, njumps, writes, sleeps,
                   stopped>>

\* lines 85, 91 and 98-99
KbdPrint ==
    /\ pc = "kbd_print"
    /\ out' = Append(out, OutRec("stopped", 0, 0, 0))
    /\ pc' = "exited"
    /\ exit_code' = 0
    /\ UNCHANGED <<is_root, argv, args, logOpened, clock, last_time,
                   current_time, time_difference, log, iter, samples, deltas,
                   adj, adjs, njumps, writes, sleeps, stopped>>

\* an exception other than KeyboardInterrupt raised at a statement of the
\* try block (line 86)
Fail ==
    /\ pc \in TryPcs
    /\ pc' = "err_log"
    /\ stopped' = [by |-> "error", at |-> pc]
    /\ UNCHANGED <<is_root, argv, args, logOpened, clock, last_time,
                   current_time, time_difference, log, out, exit_code, iter,
                   samples, deltas, adj, adjs, njumps, writes, sleeps>>

\* line 87
ErrLog ==
    /\ pc = "err_log"
    /\ log' = Append(log, LogRec("ERROR", "error", 0, 0, 0))
    /\ pc' = "err_print"
    /\ UNCHANGED <<is_root, argv, args, logOpened, clock, last_time,
                   current_time, time_difference, out, exit_code, iter,
                   samples, deltas, adj, adjs, njumps, writes, sleeps,
                   stopped>>

\* the error is printed and the iteration is retried
ErrPrint_retry ==
    /\ pc = "err_print"
    /\ out' = Append(out, OutRec("error", 0, 0, 0))
    /\ pc' = "sample"
    /\ UNCHANGED <<is_root, argv, args, logOpened, clock, last_time,
                   current_time, time_difference, log, exit_code, iter,
                   samples, deltas, adj, adjs, njumps, writes, sleeps,
                   stopped>>

\* lines 88-89 and 98-99
ErrPrint ==
    /\ pc = "err_print"
    /\ out' = Append(out, OutRec("error", 0, 0, 0))
    /\ pc' = "exited"
    /\ exit_code' = 1
    /\ UNCHANGED <<is_root, argv, args, logOpened, clock, last_time,
                   current_time, time_difference, log, iter, samples, deltas,
                   adj, adjs, njumps, writes, sleeps, stopped>>

Next ==
    \/ RootCheck
    \/ ParseArgs
    \/ Validate
    \/ OpenLog
    \/ OpenLogFail
    \/ StartTime
    \/ LogStarted
    \/ PrintStarted
    \/ Sample
    \/ Check
    \/ LogAlert
    \/ PrintAlert
    \/ Update
    \/ Sleep
    \/ ClockJump
    \/ Interrupt
    \/ KbdLog
    \/ KbdPrint
    \/ Fail
    \/ ErrLog
    \/ ErrPrint

Spec == Init /\ [][Next]_vars

\* ---- vocabulary of the properties ----
interval == args.interval
threshold == args.threshold

IsAlert(e) == e.msg = "alert"
AlertsOf(s) ==
    LET a == SelectSeq(s, IsAlert)
    IN [k \in 1..Len(a) |-> <<a[k].iter, a[k].delta, a[k].expected>>]
Has(s, msg) == \E k \in 1..Len(s) : s[k].msg = msg
Logged(m) == \E k \in 1..Len(log) : log[k].msg = "alert" /\ log[k].iter = m
Printed(m) == \E k \in 1..Len(out) : out[k].msg = "alert" /\ out[k].iter = m
\* iteration m has gone past its if statement (line 76-78)
Completed(m) ==
    \/ m < iter
    \/ m = iter /\ pc \in {"update", "sleep", "sample"}
Given(r) == r.kind = "int" /\ r.val > 0
Bad(r) == r.kind = "text" \/ (r.kind = "int" /\ r.val <= 0)
BadConfig == Bad(argv.interval) \/ Bad(argv.threshold)

\* ---- C1 ----
\* C1: in every iteration an alert is emitted if and only if
\* |delta - interval| > threshold: an alert in either output implies the
\* strict excess, and an iteration that has gone past its if statement has
\* the alert in both outputs exactly when the excess is strict; the alert
\* carries the measured delta and the expected interval.
C1_AlertIffDeviation ==
    \A m \in 1..Len(deltas) :
        LET dev == Abs(deltas[m] - interval)
        IN /\ (Logged(m) \/ Printed(m)) => dev > threshold
           /\ Completed(m) => ((Logged(m) /\ Printed(m)) <=> dev > threshold)
           /\ \A k \in 1..Len(log) :
                 (log[k].msg = "alert" /\ log[k].iter = m)
                     => log[k].delta = deltas[m] /\ log[k].expected = interval

\* a run with an iteration exactly on the threshold (no alert) and an
\* iteration with a negative delta that raised an alert
C1_Witness ==
    /\ \E m \in 1..Len(deltas) :
          /\ Completed(m)
          /\ Abs(deltas[m] - interval) = threshold
          /\ ~Logged(m) /\ ~Printed(m)
    /\ \E n \in 1..Len(deltas) :
          /\ Completed(n)
          /\ deltas[n] < 0
          /\ Logged(n) /\ Printed(n)

\* ---- C2 ----
\* C2: a run in which the clock is never stepped emits no alert in any
\* iteration, the first included, whatever the valid configuration.
C2_NoAlertWhenUndisturbed ==
    njumps = 0 => ~Has(log, "alert") /\ ~Has(out, "alert")

\* ---- C3 ----
\* C3: positive integers given for --interval and --threshold are accepted
\* unchanged; a non-positive or non-numeric value is rejected before the
\* loop: no clock sample, no log file, no started message, no alert, and a
\* non-zero exit status.
C3_ValidationGate ==
    /\ (Given(argv.interval) /\ Given(argv.threshold)
            /\ pc \notin {"root_check", "parse", "validate"})
         => /\ interval = argv.interval.val
            /\ threshold = argv.threshold.val
            /\ ~(pc = "exited" /\ stopped.by = "no")
    /\ BadConfig
         => /\ pc \in {"root_check", "parse", "validate", "exited"}
            /\ samples = <<>> /\ iter = 0 /\ sleeps = 0
            /\ ~logOpened
            /\ ~Has(log, "started") /\ ~Has(out, "started")
            /\ ~Has(log, "alert") /\ ~Has(out, "alert")
            /\ pc = "exited" => exit_code \notin {NoExit, 0}

\* --interval 0 rejected by check_positive_int
C3_Witness ==
    /\ pc = "exited"
    /\ argv.interval = [kind |-> "int", val |-> 0]
    /\ Given(argv.threshold)
    /\ exit_code = 1
    /\ Has(out, "invalid")
    /\ ~logOpened

\* ---- C4 ----
\* C4: the exit status is 0 exactly after an interrupt, 1 on every
\* configuration validation failure (non-positive or non-numeric value) and
\* on every runtime failure, and nothing else.
C4_ExitStatus ==
    pc = "exited" =>
        /\ exit_code \in {0, 1}
        /\ exit_code = 0 <=> stopped.by = "interrupt"
        /\ BadConfig => exit_code = 1
        /\ stopped.by = "error" => exit_code = 1

\* ---- C5 ----
\* C5: an interrupt at any statement of the running loop leads to the
\* handler, which logs and prints the stop message and returns 0; from the
\* interrupt on no clock sample, alert or wait occurs.
C5_InterruptStops ==
    [][ /\ stopped'.by = "interrupt"
            => pc' \in {"kbd_log", "kbd_print", "exited"}
        /\ (stopped.by = "interrupt" /\ pc = "kbd_log") => pc' = "kbd_print"
        /\ (stopped.by = "interrupt" /\ pc = "kbd_print") => pc' = "exited"
        /\ stopped.by = "interrupt"
            => /\ samples' = samples /\ iter' = iter /\ sleeps' = sleeps
               /\ AlertsOf(log') = AlertsOf(log)
               /\ AlertsOf(out') = AlertsOf(out)
               /\ last_time' = last_time
        /\ (stopped'.by = "interrupt" /\ pc' = "exited")
            => /\ exit_code' = 0
               /\ Has(log', "stopped") /\ Has(out', "stopped")
      ]_vars

\* interrupted in the middle of the second wait, stopped with status 0
C5_Witness ==
    /\ pc = "exited"
    /\ stopped = [by |-> "interrupt", at |-> "sleep"]
    /\ iter = 2
    /\ sleeps = 1
    /\ exit_code = 0
    /\ Has(log, "stopped") /\ Has(out, "stopped")

\* ---- C6 ----
\* C6: once the process has stopped, the alerts in the log and the alerts
\* on the interactive output are the same.
C6_AlertsInBothOutputs ==
    pc = "exited" => AlertsOf(log) = AlertsOf(out)

\* ---- C7 ----
\* C7: an exception other than an interrupt raised in a loop cycle leads to
\* the handler, which reports the error to the log and to the output and
\* returns 1; no iteration runs afterwards.
C7_FailureStops ==
    [][ /\ (stopped'.by = "error" /\ stopped'.at \in LoopPcs)
            => pc' \in {"err_log", "err_print", "exited"}
        /\ (stopped.by = "error" /\ pc = "err_log") => pc' = "err_print"
        /\ (stopped.by = "error" /\ pc = "err_print") => pc' = "exited"
        /\ (stopped.by = "error" /\ stopped.at \in LoopPcs)
            => /\ samples' = samples /\ iter' = iter /\ sleeps' = sleeps
               /\ AlertsOf(log') = AlertsOf(log)
               /\ AlertsOf(out') = AlertsOf(out)
               /\ last_time' = last_time
        /\ (stopped'.by = "error" /\ stopped'.at \in LoopPcs /\ pc' = "exited")
            => /\ exit_code' = 1
               /\ Has(log', "error") /\ Has(out', "error")
      ]_vars

\* the wait of the first iteration raised, stopped with status 1
C7_Witness ==
    /\ pc = "exited"
    /\ stopped = [by |-> "error", at |-> "sleep"]
    /\ iter = 1
    /\ exit_code = 1
    /\ Has(log, "error") /\ Has(out, "error")

\* ---- C8 ----
\* C8: just before current_time is read, last_time is the previous clock
\* reading (the one of line 68 for the first iteration); inside an
\* iteration last_time is written once, after the check and before the
\* wait.
C8_LastTimeIsPreviousSample ==
    /\ pc = "sample"
         => /\ last_time = samples[Len(samples)]
            /\ writes = iter
    /\ pc \in {"check", "log_alert", "print_alert", "update"}
         => /\ last_time = samples[Len(samples) - 1]
            /\ writes = iter - 1
    /\ pc = "sleep"
         => /\ last_time = samples[Len(samples)]
            /\ writes = iter

\* the boundary before the third iteration, after a stepped clock
C8_Witness ==
    /\ pc = "sample"
    /\ iter = 2
    /\ adjs[2] # 0
    /\ last_time = samples[3]
    /\ last_time # samples[1] + 2 * interval

\* ---- C9 ----
\* C9: with a single clock step J, made during a wait, the iteration after
\* that wait measures interval + J and raises an alert exactly when
\* |J| > threshold; every other iteration after the first measures interval
\* and raises none.
C9_SingleStepSingleAlert ==
    (njumps = 1 /\ Len(adjs) >= 1 /\ adjs[1] = 0)
      => /\ \A m \in 2..Len(deltas) :
               /\ deltas[m] = interval + adjs[m]
               /\ (Logged(m) \/ Printed(m)) => Abs(adjs[m]) > threshold
               /\ Completed(m)
                    => ((Logged(m) /\ Printed(m)) <=> Abs(adjs[m]) > threshold)
               /\ adjs[m] = 0
                    => deltas[m] = interval /\ ~Logged(m) /\ ~Printed(m)
         /\ Cardinality({m \in 2..Len(adjs) : adjs[m] # 0}) <= 1
         /\ Cardinality({m \in 2..Len(deltas) : Logged(m)}) <= 1

\* a step above the threshold in the first wait: alert in iteration 2, none
\* in iteration 3
C9_Witness ==
    /\ njumps = 1
    /\ Len(deltas) = 3
    /\ adjs[1] = 0
    /\ Abs(adjs[2]) > threshold
    /\ Logged(2) /\ Printed(2)
    /\ Completed(3)
    /\ deltas[3] = interval
    /\ ~Logged(3) /\ ~Printed(3)

\* ---- C10 ----
\* C10: when the clock steps between consecutive samples are each of
\* magnitude at most threshold, no iteration after the first raises an
\* alert, however large their sum.
C10_SmallStepsNeverAlert ==
    (\A m \in 2..Len(adjs) : Abs(adjs[m]) <= threshold)
      => \A m \in 2..Len(deltas) : ~Logged(m) /\ ~Printed(m)

\* two steps within the threshold whose sum exceeds it, and no alert
C10_Witness ==
    /\ Len(deltas) = 3
    /\ Completed(3)
    /\ adjs[2] # 0 /\ adjs[3] # 0
    /\ Abs(adjs[2]) <= threshold /\ Abs(adjs[3]) <= threshold
    /\ Abs(adjs[2] + adjs[3]) > threshold
    /\ ~Logged(2) /\ ~Printed(2) /\ ~Logged(3) /\ ~Printed(3)

====
